---- MODULE Spec2Model ----
(***************************************************************************)
(* Model of src/vulnerable_endpoints.py: the two in-memory stores          *)
(* (db_users, db_documents) and the three request handlers get_document,   *)
(* update_profile and delete_document_secure.                              *)
(*                                                                         *)
(* The handlers are translated statement by statement as operators on a    *)
(* state record s = [db_users, heap, db_documents, req].  Spec runs one    *)
(* request at a time (each handler runs to completion); SpecConc lets the  *)
(* worker threads of the server interleave at statement granularity.       *)
(*                                                                         *)
(* Python object identity matters in update_profile: db_users maps a       *)
(* user id to a reference, and heap maps a reference to the User object's  *)
(* fields.  An Optional value is <<>> (None) or <<v>>.                     *)
(***************************************************************************)
EXTENDS Integers, Sequences, FiniteSets, TLC

VARIABLES db_users, heap, db_documents, req

vars == <<db_users, heap, db_documents, req>>

\* ------------------------------------------------------------------ bounds

\* Worker threads serving requests concurrently (SpecConc).
NumThreads == 2

Threads == 1..NumThreads

\* The thread that serves every request of the sequential specification.
Main == CHOOSE t \in Threads : \A u \in Threads : t <= u

\* ------------------------------------------------------------- data model

None == <<>>

Some(v) == <<v>>

IsNone(o) == o = <<>>

Val(o) == o[1]

\* class User: the fields of one User object.
User(uid, name, admin) == [user_id |-> uid, username |-> name, is_admin |-> admin]

\* class Document.
Document(did, owner, text, public) ==
    [doc_id |-> did, owner_id |-> owner, content |-> text, is_public |-> public]

\* class UserUpdate: both fields Optional, None by default.
UserUpdate(name, admin) == [username |-> name, is_admin |-> admin]

\* The reference held by db_users for the User object created for uid.
Ref(uid) == <<"User", uid>>

\* db_users = {1: User(...), 2: User(...), 99: User(...)}: the dictionary ...
InitDbUsers == [uid \in {1, 2, 99} |-> Ref(uid)]

\* ... and the objects it refers to.
InitHeap ==
    (Ref(1) :> User(1, "alice", FALSE)) @@
    (Ref(2) :> User(2, "bob", FALSE)) @@
    (Ref(99) :> User(99, "sysadmin", TRUE))

\* db_documents = {101: ..., 102: ..., 103: ...}
InitDbDocuments ==
    (101 :> Document(101, 1, "Alice's private diary", FALSE)) @@
    (102 :> Document(102, 2, "Bob's secret recipe", FALSE)) @@
    (103 :> Document(103, 99, "Server master passwords", FALSE))

\* get_current_user(): always db_users[1], the object itself (no copy).
get_current_user(s) == s.db_users[1]

\* dict.get(key): the value, or None.
DictGet(d, k) == IF k \in DOMAIN d THEN Some(d[k]) ELSE None

\* del d[k] for a present key.
DictDel(d, k) == [x \in (DOMAIN d) \ {k} |-> d[x]]

\* d[k] = v
DictPut(d, k, v) == [x \in (DOMAIN d) \cup {k} |-> IF x = k THEN v ELSE d[x]]

\* ---------------------------------------------------------------- inputs

\* doc_id path parameters: the three stored documents and one unknown id.
DocIds == {101, 102, 103, 104}

\* username values a payload may carry.
Names == {"mallory", "newname"}

\* Every UserUpdate payload: each field absent (None) or given.
Payloads ==
    {UserUpdate(n, a) : n \in {None} \cup {Some(x) : x \in Names},
                        a \in {None, Some(TRUE), Some(FALSE)}}

\* ----------------------------------------------------- requests in flight

\* A thread with no request.
Idle ==
    [op |-> "none", pc |-> "idle", doc_id |-> None, user_update |-> UserUpdate(None, None),
     current_user |-> None, user |-> None, document |-> None,
     status |-> 0, body |-> None]

\* The state record of the current state.
St == [db_users |-> db_users, heap |-> heap, db_documents |-> db_documents, req |-> req]

\* The next state is s.
Becomes(s) ==
    /\ db_users' = s.db_users
    /\ heap' = s.heap
    /\ db_documents' = s.db_documents
    /\ req' = s.req

\* Thread t's request record updated to r.
WithReq(s, t, r) == [s EXCEPT !.req[t] = r]

\* raise HTTPException(status_code, detail) / return value: the response.
Respond(s, t, code, value) ==
    WithReq(s, t, [s.req[t] EXCEPT !.pc = "done", !.status = code, !.body = Some(value)])

\* The router binds the parameters and resolves Depends(get_current_user).
Begin(s, t, name, did, upd, first) ==
    WithReq(s, t, [Idle EXCEPT !.op = name, !.pc = first, !.doc_id = did,
                               !.user_update = upd,
                               !.current_user = Some(get_current_user(s))])

\* ------------------------------------------------------------ get_document

\* Mutant of GetLookup: db_documents.pop(doc_id, None) in place of .get(doc_id).
GetLookup_Pop(s, t) ==
    LET d == Val(s.req[t].doc_id)
        s1 == IF d \in DOMAIN s.db_documents
              THEN [s EXCEPT !.db_documents = DictDel(s.db_documents, d)] ELSE s
    IN  WithReq(s1, t, [s.req[t] EXCEPT !.document = DictGet(s.db_documents, d),
                                        !.pc = "get_return"])

\* line 54: document = db_documents.get(doc_id)
GetLookup(s, t) ==
    WithReq(s, t, [s.req[t] EXCEPT !.document = DictGet(s.db_documents, Val(s.req[t].doc_id)),
                                   !.pc = "get_return"])

\* lines 55-63: 404 when the document is missing, else return document.
GetReturn(s, t) ==
    IF IsNone(s.req[t].document)
    THEN Respond(s, t, 404, [detail |-> "Document not found"])
    ELSE Respond(s, t, 200, Val(s.req[t].document))

\* GET /api/documents/{doc_id}, run to completion.
get_document(s, t, d) ==
    GetReturn(GetLookup(Begin(s, t, "get_document", Some(d), UserUpdate(None, None), "get_lookup"), t), t)

\* ---------------------------------------------------------- update_profile

\* Mutant of UpdGetUser: user = db_users.get(...).copy(), a private copy of
\* the stored object (the read-then-write discipline on a value).
UpdGetUser_Copy(s, t) ==
    LET orig == s.db_users[s.heap[Val(s.req[t].current_user)].user_id]
        copy == <<"copy", t>>
        s1 == [s EXCEPT !.heap = DictPut(s.heap, copy, s.heap[orig])]
    IN  WithReq(s1, t, [s.req[t] EXCEPT !.user = Some(copy), !.pc = "upd_username"])

\* line 77: user = db_users.get(current_user.user_id): the stored object itself.
UpdGetUser(s, t) ==
    WithReq(s, t, [s.req[t] EXCEPT
        !.user = DictGet(s.db_users, s.heap[Val(s.req[t].current_user)].user_id),
        !.pc = "upd_username"])

\* lines 79-80: if user_update.username is not None: user.username = ...
UpdSetUsername(s, t) ==
    LET r == s.req[t]
        s1 == IF IsNone(r.user_update.username) THEN s
              ELSE [s EXCEPT !.heap[Val(r.user)].username = Val(r.user_update.username)]
    IN  WithReq(s1, t, [r EXCEPT !.pc = "upd_is_admin"])

\* Mutant of UpdSetIsAdmin: user.is_admin = bool(user_update.is_admin), an
\* absent field written as False.
UpdSetIsAdmin_NoneAsFalse(s, t) ==
    LET r == s.req[t]
        v == IF IsNone(r.user_update.is_admin) THEN FALSE ELSE Val(r.user_update.is_admin)
    IN  WithReq([s EXCEPT !.heap[Val(r.user)].is_admin = v], t, [r EXCEPT !.pc = "upd_save"])

\* lines 83-84: if user_update.is_admin is not None: user.is_admin = ...
UpdSetIsAdmin(s, t) ==
    LET r == s.req[t]
        s1 == IF IsNone(r.user_update.is_admin) THEN s
              ELSE [s EXCEPT !.heap[Val(r.user)].is_admin = Val(r.user_update.is_admin)]
    IN  WithReq(s1, t, [r EXCEPT !.pc = "upd_save"])

\* line 87: db_users[user.user_id] = user
UpdSave(s, t) ==
    LET r == s.req[t]
        s1 == [s EXCEPT !.db_users = DictPut(s.db_users, s.heap[Val(r.user)].user_id, Val(r.user))]
    IN  WithReq(s1, t, [r EXCEPT !.pc = "upd_return"])

\* line 88: return user (serialised through response_model=User).
UpdReturn(s, t) == Respond(s, t, 200, s.heap[Val(s.req[t].user)])

\* PUT /api/users/me, run to completion.
update_profile(s, t, u) ==
    UpdReturn(UpdSave(UpdSetIsAdmin(UpdSetUsername(UpdGetUser(
        Begin(s, t, "update_profile", None, u, "upd_get_user"), t), t), t), t), t)

\* -------------------------------------------------- delete_document_secure

\* line 94: document = db_documents.get(doc_id)
DelLookup(s, t) ==
    WithReq(s, t, [s.req[t] EXCEPT !.document = DictGet(s.db_documents, Val(s.req[t].doc_id)),
                                   !.pc = "del_found"])

\* Mutant of DelCheckFound: a missing document answered as forbidden.
DelCheckFound_Forbidden(s, t) ==
    IF IsNone(s.req[t].document)
    THEN Respond(s, t, 403, [detail |-> "Not authorized to delete this document"])
    ELSE WithReq(s, t, [s.req[t] EXCEPT !.pc = "del_authorize"])

\* lines 95-96: if not document: raise HTTPException(404)
DelCheckFound(s, t) ==
    IF IsNone(s.req[t].document)
    THEN Respond(s, t, 404, [detail |-> "Document not found"])
    ELSE WithReq(s, t, [s.req[t] EXCEPT !.pc = "del_authorize"])

\* Mutant of DelAuthorize: the read rule reused for delete, a public document
\* may be deleted by anyone.
DelAuthorize_PublicAllowed(s, t) ==
    LET r == s.req[t]
        current_user == s.heap[Val(r.current_user)]
        document == Val(r.document)
    IN  IF /\ ~document.is_public
           /\ document.owner_id # current_user.user_id
           /\ ~current_user.is_admin
        THEN Respond(s, t, 403, [detail |-> "Not authorized to delete this document"])
        ELSE WithReq(s, t, [r EXCEPT !.pc = "del_remove"])

\* lines 99-100: neither the owner nor an admin: raise HTTPException(403)
DelAuthorize(s, t) ==
    LET r == s.req[t]
        current_user == s.heap[Val(r.current_user)]
        document == Val(r.document)
    IN  IF document.owner_id # current_user.user_id /\ ~current_user.is_admin
        THEN Respond(s, t, 403, [detail |-> "Not authorized to delete this document"])
        ELSE WithReq(s, t, [r EXCEPT !.pc = "del_remove"])

\* lines 102-103: del db_documents[doc_id]; return success.  del of a key that
\* is no longer present raises KeyError, which no handler catches: the
\* request ends as an internal server error.
DelRemove(s, t) ==
    LET d == Val(s.req[t].doc_id)
    IN  IF d \in DOMAIN s.db_documents
        THEN Respond([s EXCEPT !.db_documents = DictDel(s.db_documents, d)], t, 200,
                     [status |-> "success", deleted_id |-> d])
        ELSE WithReq(s, t, [s.req[t] EXCEPT !.pc = "fault", !.status = 500,
                                            !.body = Some([detail |-> "KeyError"])])

\* The statements of delete_document_secure after the lookup, to the response.
DelAfterLookup(s, t) ==
    LET s1 == DelCheckFound(s, t)
        s2 == IF s1.req[t].pc = "del_authorize" THEN DelAuthorize(s1, t) ELSE s1
    IN  IF s2.req[t].pc = "del_remove" THEN DelRemove(s2, t) ELSE s2

\* DELETE /api/documents/{doc_id}, run to completion.
delete_document_secure(s, t, d) ==
    DelAfterLookup(DelLookup(
        Begin(s, t, "delete_document_secure", Some(d), UserUpdate(None, None), "del_lookup"), t), t)

\* ------------------------------------------- one request at a time (Spec)

Init ==
    /\ db_users = InitDbUsers
    /\ heap = InitHeap
    /\ db_documents = InitDbDocuments
    /\ req = [t \in Threads |-> Idle]

\* The worker takes the next request when the previous one has been answered.
Ready(t) == req[t].pc \in {"idle", "done"}

GetDocument(d) ==
    /\ Ready(Main)
    /\ Becomes(get_document(St, Main, d))

UpdateProfile(u) ==
    /\ Ready(Main)
    /\ Becomes(update_profile(St, Main, u))

DeleteDocumentSecure(d) ==
    /\ Ready(Main)
    /\ Becomes(delete_document_secure(St, Main, d))

Next ==
    \/ \E d \in DocIds : GetDocument(d)
    \/ \E u \in Payloads : UpdateProfile(u)
    \/ \E d \in DocIds : DeleteDocumentSecure(d)

Spec == Init /\ [][Next]_vars

\* The mock store with any visibility flags: the three documents and their
\* owners as in the source, each is_public flag either way.  InitDbDocuments
\* (every flag False) is one of these stores.
DocumentStores ==
    {[d \in DOMAIN InitDbDocuments |-> [InitDbDocuments[d] EXCEPT !.is_public = vis[d]]] :
        vis \in [DOMAIN InitDbDocuments -> BOOLEAN]}

InitAnyVisibility ==
    /\ db_users = InitDbUsers
    /\ heap = InitHeap
    /\ db_documents \in DocumentStores
    /\ req = [t \in Threads |-> Idle]

SpecAnyVisibility == InitAnyVisibility /\ [][Next]_vars

\* ------------------------------------ interleaved worker threads (SpecConc)
\* The handlers are plain def functions, which the server runs on worker
\* threads: requests interleave between statements.  Each thread serves one
\* request.

BeginUpdate(t, u) ==
    /\ req[t].pc = "idle"
    /\ Becomes(Begin(St, t, "update_profile", None, u, "upd_get_user"))

BeginDelete(t, d) ==
    /\ req[t].pc = "idle"
    /\ Becomes(Begin(St, t, "delete_document_secure", Some(d), UserUpdate(None, None), "del_lookup"))

\* The statement thread t is at, executed.
Statement(s, t) ==
    CASE s.req[t].pc = "upd_get_user"  -> UpdGetUser(s, t)
      [] s.req[t].pc = "upd_username"  -> UpdSetUsername(s, t)
      [] s.req[t].pc = "upd_is_admin"  -> UpdSetIsAdmin(s, t)
      [] s.req[t].pc = "upd_save"      -> UpdSave(s, t)
      [] s.req[t].pc = "upd_return"    -> UpdReturn(s, t)
      [] s.req[t].pc = "del_lookup"    -> DelLookup(s, t)
      [] s.req[t].pc = "del_found"     -> DelCheckFound(s, t)
      [] s.req[t].pc = "del_authorize" -> DelAuthorize(s, t)
      [] s.req[t].pc = "del_remove"    -> DelRemove(s, t)

InFlight(s, t) == s.req[t].pc \notin {"idle", "done", "fault"}

UpdateStep(t) ==
    /\ InFlight(St, t)
    /\ req[t].op = "update_profile"
    /\ Becomes(Statement(St, t))

DeleteStep(t) ==
    /\ InFlight(St, t)
    /\ req[t].op = "delete_document_secure"
    /\ Becomes(Statement(St, t))

NextConc ==
    \/ \E t \in Threads, u \in Payloads : BeginUpdate(t, u)
    \/ \E t \in Threads, d \in DocIds : BeginDelete(t, d)
    \/ \E t \in Threads : UpdateStep(t)
    \/ \E t \in Threads : DeleteStep(t)

SpecConc == Init /\ [][NextConc]_vars

\* ================================================================ properties

\* The subject of every request: the stored record of get_current_user().
Subject == heap[db_users[1]]

\* The request last served by the sequential worker, and its response.
Last == req[Main]

\* Everything the stores hold.
stores == <<db_users, heap, db_documents>>

\* The read rule: public, or owned by the subject, or the subject is an admin.
MayRead(subj, doc) == doc.is_public \/ doc.owner_id = subj.user_id \/ subj.is_admin

\* The delete rule: owned by the subject, or the subject is an admin.
MayDelete(subj, doc) == doc.owner_id = subj.user_id \/ subj.is_admin

\* C1 (read authorization): a get_document of a stored document answers 200
\* with the document exactly when the document is public, or the subject owns
\* it, or the subject is an admin; otherwise the answer is 403 and the
\* document is not returned.
C1_ReadAuthorization ==
    (Last.op = "get_document" /\ Last.pc = "done" /\ Val(Last.doc_id) \in DOMAIN db_documents) =>
        LET doc == db_documents[Val(Last.doc_id)]
        IN  IF MayRead(Subject, doc)
            THEN Last.status = 200 /\ Last.body = Some(doc)
            ELSE Last.status = 403 /\ Last.body # Some(doc)

\* C2 (mass-assignment resistance): a user whose is_admin was false at store
\* initialization never has is_admin true, whatever update_profile payloads
\* were sent.
C2_NoSelfEscalation ==
    \A uid \in DOMAIN db_users :
        ~InitHeap[InitDbUsers[uid]].is_admin => ~heap[db_users[uid]].is_admin

\* C3 (delete authorization): a delete_document_secure of a stored document
\* removes it and answers 200 exactly when the subject owns it or is an
\* admin, whatever its is_public flag; otherwise it answers 403 and leaves
\* db_documents as it was.
C3_DeleteAuthorization ==
    [][(Last'.op = "delete_document_secure" /\ Val(Last'.doc_id) \in DOMAIN db_documents) =>
        LET d == Val(Last'.doc_id)
        IN  IF MayDelete(Subject, db_documents[d])
            THEN Last'.status = 200 /\ db_documents' = DictDel(db_documents, d)
            ELSE Last'.status = 403 /\ db_documents' = db_documents]_vars

\* C3 witness: a public document of another user, whose delete was refused
\* and which is still stored.
C3_PublicDeleteDenied ==
    /\ Last.op = "delete_document_secure"
    /\ Last.status = 403
    /\ Val(Last.doc_id) \in DOMAIN db_documents
    /\ db_documents[Val(Last.doc_id)].is_public
    /\ db_documents[Val(Last.doc_id)].owner_id # Subject.user_id

\* C4 (strict privileged-field policy): every user's is_admin equals its
\* value at store initialization.
C4_IsAdminNeverWritten ==
    \A uid \in DOMAIN db_users :
        heap[db_users[uid]].is_admin = InitHeap[InitDbUsers[uid]].is_admin

\* C5 (not-found): get_document and delete_document_secure with a doc_id
\* that is no key of db_documents answer 404 and leave both stores unchanged,
\* whoever the subject is.
C5_NotFound ==
    [][(/\ Last'.op \in {"get_document", "delete_document_secure"}
        /\ Val(Last'.doc_id) \notin DOMAIN db_documents)
       => (Last'.status = 404 /\ Last'.pc = "done" /\ UNCHANGED stores)]_vars

\* C5 witness: an admin subject's delete of an unknown document answered 404.
C5_AdminDeleteNotFound ==
    /\ Last.op = "delete_document_secure"
    /\ Last.status = 404
    /\ Subject.is_admin
    /\ Val(Last.doc_id) \notin DOMAIN db_documents

\* C6 (benign update): update_profile with a payload that holds only
\* username = n sets the subject's username to n and changes nothing else in
\* either store; the returned record is the stored one.
C6_BenignUpdate ==
    [][(/\ Last'.op = "update_profile"
        /\ ~IsNone(Last'.user_update.username)
        /\ IsNone(Last'.user_update.is_admin))
       => (/\ heap' = [heap EXCEPT ![db_users[1]].username = Val(Last'.user_update.username)]
           /\ db_users' = db_users
           /\ db_documents' = db_documents
           /\ Last'.status = 200
           /\ Last'.body = Some(heap'[db_users'[1]]))]_vars

\* C6 witness: a username-only update served for a subject that is an admin
\* by then, and whose name it changed.
C6_UsernameOnlyUpdateDone ==
    /\ Last.op = "update_profile"
    /\ Last.status = 200
    /\ IsNone(Last.user_update.is_admin)
    /\ Last.user_update.username = Some("newname")
    /\ Subject.username = "newname"
    /\ Subject.is_admin

\* C7 (read is pure): get_document changes neither store, and a
\* get_document that directly follows a get_document of the same doc_id gets
\* the same response.
C7_ReadIsPure ==
    [][Last'.op = "get_document" =>
        /\ UNCHANGED stores
        /\ (Last.op = "get_document" /\ Last.doc_id = Last'.doc_id)
             => (Last'.status = Last.status /\ Last'.body = Last.body)]_vars

\* C7 witness: a document read with success and still stored.
C7_DocumentRead ==
    /\ Last.op = "get_document"
    /\ Last.status = 200
    /\ Val(Last.doc_id) \in DOMAIN db_documents
    /\ Last.body = Some(db_documents[Val(Last.doc_id)])

\* C8 (no escalation chain): the subject was no admin at store
\* initialization, so every document of another owner is still stored.
C8_OthersDocumentsKept ==
    ~InitHeap[InitDbUsers[1]].is_admin =>
        \A d \in DOMAIN InitDbDocuments :
            InitDbDocuments[d].owner_id # InitHeap[InitDbUsers[1]].user_id
                => d \in DOMAIN db_documents

\* ----------------------------------------------------- concurrent requests

\* The two threads whose update_profile requests race.
RacingPair == {t \in Threads : t <= 2}

\* The steps of the racing threads from s: a thread without a request takes
\* an update_profile request, a thread with one executes its next statement.
RaceSuccessors(s) ==
    {Begin(s, t, "update_profile", None, u, "upd_get_user") :
        t \in {x \in RacingPair : s.req[x].pc = "idle"}, u \in Payloads}
    \cup {Statement(s, t) : t \in {x \in RacingPair : InFlight(s, x)}}

RECURSIVE RaceReach(_, _)
\* The states reached from seen, of which frontier are still to expand.
RaceReach(seen, frontier) ==
    IF frontier = {} THEN seen
    ELSE LET new == (UNION {RaceSuccessors(s) : s \in frontier}) \ seen
         IN  RaceReach(seen \cup new, new)

\* Every state of every interleaving of two update_profile requests that
\* starts in state s.
RaceStates(s) == RaceReach({s}, {s})

UpdateFields == {"username", "is_admin"}

\* In s, thread t's completed update_profile set field f, thread u's payload
\* does not hold f, and the stored record does not have t's value.
LostUpdate(s, t, u, f) ==
    /\ t # u
    /\ s.req[t].op = "update_profile" /\ s.req[t].pc = "done"
    /\ s.req[u].op = "update_profile" /\ s.req[u].pc = "done"
    /\ ~IsNone(s.req[t].user_update[f])
    /\ IsNone(s.req[u].user_update[f])
    /\ s.heap[s.db_users[1]][f] # Val(s.req[t].user_update[f])

\* C9 as stated (a lost update is admitted): from the store with no request
\* in flight, some interleaving of two update_profile requests, both
\* completed, ends with the stored record lacking a field change of one
\* request that the other's payload did not hold.
C9_LostUpdateAdmitted ==
    (\A t \in Threads : req[t].pc = "idle") =>
        \E s \in RaceStates(St) : \E t \in RacingPair, u \in RacingPair, f \in UpdateFields :
            LostUpdate(s, t, u, f)

\* C9 as amended (no lost update): once an update_profile request has
\* completed, each field its payload held has the value it wrote, unless
\* another request's payload holds that field too.
C9_NoLostUpdate ==
    \A t \in Threads, f \in UpdateFields :
        (/\ req[t].op = "update_profile" /\ req[t].pc = "done"
         /\ ~IsNone(req[t].user_update[f])
         /\ \A u \in Threads \ {t} : IsNone(req[u].user_update[f]))
        => Subject[f] = Val(req[t].user_update[f])

\* C9 witness: two completed update_profile requests, one that wrote only
\* the username and one that wrote only is_admin, both values stored.
C9_BothUpdatesStored ==
    \E t \in Threads, u \in Threads :
        /\ req[t].pc = "done" /\ req[u].pc = "done"
        /\ req[t].user_update = UserUpdate(Some("mallory"), None)
        /\ req[u].user_update = UserUpdate(None, Some(TRUE))
        /\ Subject.username = "mallory"
        /\ Subject.is_admin

\* C10 (concurrent deletes never fault): a finished delete_document_secure
\* of a document the subject owns ended with success or not-found.
C10_DeletesNeverFault ==
    \A t \in Threads :
        (/\ req[t].op = "delete_document_secure"
         /\ req[t].pc \in {"done", "fault"}
         /\ Val(req[t].doc_id) \in DOMAIN InitDbDocuments
         /\ InitDbDocuments[Val(req[t].doc_id)].owner_id = Subject.user_id)
        => req[t].status \in {200, 404}

====
